---- MODULE Spec2Model ----
(***************************************************************************)
(* The costing engine of menu-builder-app: Product.recalculate_cost,       *)
(* Product.update_dependent_menus and Product.recalculate_all_costs        *)
(* (src/app/models.py) and the maintenance script that calls the batch     *)
(* (src/sync_product_costs.py), over the rows of the ingredients,          *)
(* products and product_ingredients tables.                                *)
(*                                                                         *)
(* Money.  The Numeric(15, 2) columns hold whole cents; the model keeps    *)
(* them as naturals counting cents.  The engine computes on Python floats; *)
(* the model keeps a float amount as a natural counting mills (tenths of a *)
(* cent), which is exact for the amounts of the model: ToFloat takes a     *)
(* column value to the float, Round2 is round(x, 2) back to cents.         *)
(*                                                                         *)
(* Units of work.  Every operation runs in a session of its own, as the    *)
(* script's app context gives it: what the operation does not commit is    *)
(* discarded when the context ends.  cost is the committed column;         *)
(* last.session is what the session held when the operation returned.      *)
(***************************************************************************)
EXTENDS Integers, Sequences, FiniteSets, TLC

\* ------------------------------------------------------------- bounds
NumProducts == 2
NumIngredients == 2
MaxPrice == 1
MaxQuantity == 2
MaxAddOn == 1
MaxCost == 4
MaxInactive == 1

\* -------------------------------------------------- program constants
\* abs(float(old_cost or 0) - float(new_cost)) > 0.001: one mill.
Tolerance == 1
\* mills per cent: round(total_cost, 2) keeps two decimals of three.
MillsPerCent == 10

ProductIds == 1 .. NumProducts
IngredientIds == 1 .. NumIngredients
\* base_product_id is nullable.
NULL == 0
\* An id with no row in table products: Product.query.get returns None for it.
MissingId == NumProducts + 1
\* fries_size / drink_size are nullable strings; None and '' are both falsy.
NoSize == ""

VARIABLES
    ingredient_rows,    \* ids of the rows of table ingredients
    food_paper_cost,    \* Ingredient.food_paper_cost of each id, in cents
    products,           \* the rows of table products but for the cost, with
                        \* the rows of product_ingredients as field lines
    cost,               \* Product.food_paper_cost_total of each row, committed
    runs,               \* successful batches in a row with no change between
    last,               \* what the last operation did and returned, with the
                        \* stored costs it started from (before)
    users,              \* the rows of table users, by id
    restaurants,        \* the rows of table restaurants, in id order
    product_listings,   \* the rows of table product_listings, in id order
    product_rows,       \* ids of the rows of table products the API handlers see
    product_ingredients,\* the rows of table product_ingredients, in id order
    batch               \* the recalculate_all_costs call in progress, if any

vars == <<ingredient_rows, food_paper_cost, products, cost, runs, last,
          users, restaurants, product_listings, product_rows,
          product_ingredients, batch>>

\* What the costing operations never touch.
other_tables == <<users, restaurants, product_listings, product_rows,
                  product_ingredients, batch>>

\* No call of recalculate_all_costs is in progress, none was made.
NoBatch ==
    [phase |-> "idle", order |-> <<>>, k |-> 0, cost |-> <<>>, count |-> 0,
     visited |-> <<>>, outcome |-> "none", n |-> 0]

\* The other tables empty and no batch in progress.
OtherTablesIdle ==
    /\ users = <<>>
    /\ restaurants = <<>>
    /\ product_listings = <<>>
    /\ product_rows = {}
    /\ product_ingredients = <<>>
    /\ batch = NoBatch

\* ------------------------------------------------------------ helpers
RECURSIVE SumOver(_, _)
SumOver(S, f) ==
    IF S = {} THEN 0
    ELSE LET x == CHOOSE y \in S : TRUE
         IN f[x] + SumOver(S \ {x}, f)

Abs(x) == IF x < 0 THEN -x ELSE x

\* float(<Numeric(15, 2) value>)
ToFloat(cents) == cents * MillsPerCent

\* round(total_cost, 2): to the nearest cent.
Round2(mills) == (mills + (MillsPerCent \div 2)) \div MillsPerCent

\* The rows of product_ingredients of product p: the ingredient ids it lists.
LineIds(p) == {i \in IngredientIds : products[p].lines[i] > 0}

\* The products that list ingredient i (Ingredient.product_uses).
UsedIn(i) == {p \in ProductIds : products[p].lines[i] > 0}

\* product_ingredient.ingredient: None when the ingredients row is gone.
HasIngredient(i) == i \in ingredient_rows

\* Product.query.get(id): None for NULL and for an id with no row.
HasProduct(id) == id \in ProductIds

\* Faulty variant: the comparison forgets the old cost.
ChangedIgnoringOld(old, new) == Abs(ToFloat(new)) > Tolerance

\* Faulty variant: a tolerance of a cent.
ChangedByMoreThanACent(old, new) == Abs(ToFloat(old) - ToFloat(new)) > MillsPerCent

\* abs(float(old_cost or 0) - float(new_cost)) > 0.001
Changed(old, new) == Abs(ToFloat(old) - ToFloat(new)) > Tolerance

\* ------------------------------------------------------ the cost rules
\* recalculate_cost, product_type == 'product': one term per ingredient line,
\* float(product_ingredient.ingredient.food_paper_cost).
LineTerm(p, i) == ToFloat(food_paper_cost[i])

\* Faulty variant: "=" for "+=", only the last line counts.
LeafTotalLastLine(p) ==
    IF LineIds(p) = {} THEN 0
    ELSE LineTerm(p, CHOOSE i \in LineIds(p) : \A j \in LineIds(p) : j <= i)

\* Faulty variant: a product without lines keeps its stored cost.
LeafTotalKeepsEmpty(p) ==
    IF LineIds(p) = {} THEN ToFloat(cost[p])
    ELSE SumOver(LineIds(p), [i \in IngredientIds |-> LineTerm(p, i)])

LeafTotal(p) == SumOver(LineIds(p), [i \in IngredientIds |-> LineTerm(p, i)])

\* Faulty variant: the menu's own stored cost for the base product's.
BaseTermOwnCost(c, p) ==
    LET b == products[p].base_product_id
    IN IF b # NULL /\ HasProduct(b) THEN ToFloat(c[p]) ELSE 0

\* recalculate_cost, product_type == 'menu': the base product's stored cost when
\* base_product_id is set and its row exists.
BaseTerm(c, p) ==
    LET b == products[p].base_product_id
    IN IF b # NULL /\ HasProduct(b) THEN ToFloat(c[b]) ELSE 0

\* total_cost += float(self.fries_fp_cost or 0); += float(self.drink_fp_cost or 0)
AddOnTerm(p) == ToFloat(products[p].fries_fp_cost) + ToFloat(products[p].drink_fp_cost)

MenuTotal(c, p) == BaseTerm(c, p) + AddOnTerm(p)

\* recalculate_cost raises AttributeError on a line whose ingredient is None.
Raises(p) ==
    /\ products[p].product_type = "product"
    /\ \E i \in LineIds(p) : ~HasIngredient(i)

\* Faulty variant: total_cost starts from the stored cost, not from 0.
NewCostAccumulating(c, p) ==
    Round2(ToFloat(c[p])
           + (IF products[p].product_type = "product" THEN LeafTotal(p)
              ELSE IF products[p].product_type = "menu" THEN MenuTotal(c, p)
              ELSE 0))

\* The value recalculate_cost stores and returns, from session costs c.
NewCost(c, p) ==
    Round2(IF products[p].product_type = "product" THEN LeafTotal(p)
           ELSE IF products[p].product_type = "menu" THEN MenuTotal(c, p)
           ELSE 0)

\* ------------------------------------------------------------- results
NoResult ==
    [op |-> "none", target |-> 0, outcome |-> "ok", count |-> 0,
     report |-> <<>>, visited |-> <<>>, menus |-> {}, rc |-> 0, printed |-> "none",
     before |-> [p \in ProductIds |-> 0],
     session |-> [p \in ProductIds |-> 0]]

Bounded(c) == \A p \in ProductIds : c[p] <= MaxCost

\* ------------------------------------------------------ the batch walk
Orderings(S) ==
    {o \in [1 .. Cardinality(S) -> S] : \A i, j \in 1 .. Cardinality(S) : o[i] = o[j] => i = j}

\* Faulty variant: the query of the regular products filters on is_active.
ActiveLeafIds ==
    {p \in ProductIds : products[p].product_type = "product" /\ products[p].is_active}

\* Product.query.filter_by(product_type=...).all(): every row of the type,
\* active or not, in an order the query does not fix.
LeafIds == {p \in ProductIds : products[p].product_type = "product"}
MenuIds == {p \in ProductIds : products[p].product_type = "menu"}

\* Faulty variant: the menus first.
BatchOrdersMenusFirst == {m \o l : l \in Orderings(LeafIds), m \in Orderings(MenuIds)}

\* First all regular products, then the menus.
BatchOrders == {l \o m : l \in Orderings(LeafIds), m \in Orderings(MenuIds)}

\* Faulty variant: the line prints the new cost for the old.
ReportEntrySameCost(p, old, new) ==
    [product_name |-> p, product_code |-> p, old_cost |-> new, new_cost |-> new]

\* print(f"Updated {name} ({product_code}): {old_cost} -> {new_cost}"): the row's
\* name and code are the row's id here.
ReportEntry(p, old, new) ==
    [product_name |-> p, product_code |-> p, old_cost |-> old, new_cost |-> new]

\* The two loops of recalculate_all_costs over order, from item k: st holds the
\* session's costs, updated_count, the lines printed and the items done.
RECURSIVE Walk(_, _, _)
Walk(order, k, st) ==
    IF k > Len(order) THEN st
    ELSE LET p == order[k]
         IN IF Raises(p) THEN [st EXCEPT !.raised = TRUE]
            ELSE LET old == st.cost[p]
                     new == NewCost(st.cost, p)
                     ch == Changed(old, new)
                 IN Walk(order, k + 1,
                         [cost |-> [st.cost EXCEPT ![p] = new],
                          count |-> st.count + (IF ch THEN 1 ELSE 0),
                          report |-> IF ch
                                     THEN Append(st.report, ReportEntry(p, old, new))
                                     ELSE st.report,
                          visited |-> Append(st.visited, p),
                          raised |-> FALSE])

\* Faulty variant: a failed commit is not rolled back.
RecalculateAllCostsNoRollback(c, order, commit_ok) ==
    LET r == Walk(order, 1, [cost |-> c, count |-> 0, report |-> <<>>,
                             visited |-> <<>>, raised |-> FALSE])
    IN IF r.raised
       THEN [cost |-> c, outcome |-> "raised", count |-> 0, report |-> r.report,
             visited |-> r.visited, session |-> r.cost]
       ELSE [cost |-> r.cost, outcome |-> IF commit_ok THEN "ok" ELSE "commit_failed",
             count |-> IF commit_ok THEN r.count ELSE 0, report |-> r.report,
             visited |-> r.visited, session |-> r.cost]

\* Product.recalculate_all_costs from committed costs c, visiting in order,
\* with the commit succeeding or not: the costs committed, how the call ended,
\* what it returned and printed.
RecalculateAllCosts(c, order, commit_ok) ==
    LET r == Walk(order, 1, [cost |-> c, count |-> 0, report |-> <<>>,
                             visited |-> <<>>, raised |-> FALSE])
    IN IF r.raised
       THEN [cost |-> c, outcome |-> "raised", count |-> 0, report |-> r.report,
             visited |-> r.visited, session |-> r.cost]
       ELSE IF commit_ok
       THEN [cost |-> r.cost, outcome |-> "ok", count |-> r.count, report |-> r.report,
             visited |-> r.visited, session |-> r.cost]
       ELSE [cost |-> c, outcome |-> "commit_failed", count |-> 0, report |-> r.report,
             visited |-> r.visited, session |-> c]

\* --------------------------------------------------------------- Init
NoLines == [i \in IngredientIds |-> 0]

LeafRows ==
    [product_type : {"product"}, is_active : BOOLEAN, base_product_id : {NULL},
     fries_size : {NoSize}, fries_fp_cost : {0},
     drink_size : {NoSize}, drink_fp_cost : {0},
     lines : [IngredientIds -> 0 .. MaxQuantity]]

\* The fries: no size and no cost, a cost with no size selected, a selected size
\* with its cost.  The drink: none, or a selected size with its cost.
FriesChoices ==
    {[size |-> NoSize, cost |-> 0]} \cup [size : {NoSize, "large"}, cost : 1 .. MaxAddOn]

DrinkChoices ==
    {[size |-> NoSize, cost |-> 0]} \cup [size : {"medium"}, cost : 1 .. MaxAddOn]

MenuRows ==
    {[product_type |-> "menu", is_active |-> a, base_product_id |-> b,
      fries_size |-> f.size, fries_fp_cost |-> f.cost,
      drink_size |-> d.size, drink_fp_cost |-> d.cost,
      lines |-> NoLines] :
        a \in BOOLEAN, b \in 0 .. MissingId, f \in FriesChoices, d \in DrinkChoices}

\* Ids are labels.  Of the catalogs that differ by a renaming of the product
\* ids only, one is kept: the regular products take the low ids, and among the
\* renamings that keep that the catalog is the one of the least key.
RowKey(r) ==
    <<IF r.is_active THEN 0 ELSE 1, r.base_product_id,
      IF r.fries_size = NoSize THEN 0 ELSE 1, r.fries_fp_cost,
      IF r.drink_size = NoSize THEN 0 ELSE 1, r.drink_fp_cost>>
    \o [i \in 1 .. NumIngredients |-> r.lines[i]]

RECURSIVE CatalogKey(_, _)
CatalogKey(c, p) == IF p > NumProducts THEN <<>> ELSE RowKey(c[p]) \o CatalogKey(c, p + 1)

RECURSIVE LexLeq(_, _)
LexLeq(a, b) ==
    \/ a = <<>>
    \/ /\ b # <<>>
       /\ \/ Head(a) < Head(b)
          \/ Head(a) = Head(b) /\ LexLeq(Tail(a), Tail(b))

\* The catalog with the row of id pi[p] under id p.
Renamed(c, pi) ==
    [p \in ProductIds |->
        LET r == c[pi[p]]
            b == r.base_product_id
        IN [r EXCEPT !.base_product_id =
                IF b \in ProductIds THEN CHOOSE q \in ProductIds : pi[q] = b ELSE b]]

Renamings(c) ==
    {pi \in Orderings(ProductIds) :
        \A p \in ProductIds : c[pi[p]].product_type = c[p].product_type}

Catalogs ==
    {c \in [ProductIds -> LeafRows \cup MenuRows] :
        /\ \A p, q \in ProductIds :
              (p < q /\ c[q].product_type = "product") => c[p].product_type = "product"
        /\ Cardinality({p \in ProductIds : ~c[p].is_active}) <= MaxInactive
        /\ \A pi \in Renamings(c) :
              LexLeq(CatalogKey(c, 1), CatalogKey(Renamed(c, pi), 1))}

Init ==
    /\ products \in Catalogs
    /\ ingredient_rows \in {IngredientIds} \cup
            {IngredientIds \ {i} : i \in {j \in {NumIngredients} : UsedIn(j) # {}}}
    /\ food_paper_cost = [i \in IngredientIds |-> 0]
    /\ cost = [p \in ProductIds |-> 0]
    /\ runs = 0
    /\ last = NoResult
    /\ OtherTablesIdle

\* ------------------------------------------------------------ actions
\* Faulty variant: recalculate_cost on a menu refreshes the base product first.
RecalculateCostRefreshingBase(p) ==
    LET b == products[p].base_product_id
        c1 == IF /\ products[p].product_type = "menu"
                 /\ HasProduct(b)
                 /\ b # p
                 /\ ~Raises(b)
              THEN [cost EXCEPT ![b] = NewCost(cost, b)]
              ELSE cost
    IN /\ ~Raises(p)
       /\ cost' = [c1 EXCEPT ![p] = NewCost(c1, p)]
       /\ last' = [NoResult EXCEPT !.op = "recalculate_cost", !.target = p,
                                   !.before = cost, !.session = cost']
       /\ Bounded(cost')
       /\ runs' = 0
       /\ UNCHANGED <<other_tables, ingredient_rows, food_paper_cost, products>>

\* Product.recalculate_cost on product p, then the caller's commit.
RecalculateCost(p) ==
    /\ IF Raises(p)
       THEN /\ cost' = cost
            /\ last' = [NoResult EXCEPT !.op = "recalculate_cost", !.target = p,
                                        !.outcome = "raised", !.before = cost,
                                        !.session = cost]
       ELSE /\ cost' = [cost EXCEPT ![p] = NewCost(cost, p)]
            /\ last' = [NoResult EXCEPT !.op = "recalculate_cost", !.target = p,
                                        !.before = cost, !.session = cost']
    /\ Bounded(cost')
    /\ runs' = 0
    /\ UNCHANGED <<other_tables, ingredient_rows, food_paper_cost, products>>

\* Faulty variant: the query of the dependent menus does not filter on is_active.
DependentMenusInactiveToo(p) ==
    {m \in ProductIds : /\ products[m].product_type = "menu"
                        /\ products[m].base_product_id = p}

\* Product.update_dependent_menus on product p, then the caller's commit.
DependentMenus(p) ==
    {m \in ProductIds : /\ products[m].product_type = "menu"
                        /\ products[m].base_product_id = p
                        /\ products[m].is_active}

UpdateDependentMenus(p) ==
    LET deps == IF products[p].product_type = "product" THEN DependentMenus(p) ELSE {}
    IN /\ cost' = [m \in ProductIds |-> IF m \in deps THEN NewCost(cost, m) ELSE cost[m]]
       /\ last' = [NoResult EXCEPT !.op = "update_dependent_menus", !.target = p,
                                   !.menus = {m \in deps : Changed(cost[m], NewCost(cost, m))},
                                   !.before = cost, !.session = cost']
       /\ Bounded(cost')
       /\ runs' = 0
       /\ UNCHANGED <<other_tables, ingredient_rows, food_paper_cost, products>>

\* Faulty variant: the except clause swallows the error.
MainSwallowingError ==
    \E order \in BatchOrders, commit_ok \in BOOLEAN :
        \E r \in {RecalculateAllCosts(cost, order, commit_ok)} :
           /\ cost' = r.cost
           /\ Bounded(cost')
           /\ last' = [NoResult EXCEPT !.op = "recalculate_all_costs",
                                       !.outcome = r.outcome, !.count = r.count,
                                       !.report = r.report, !.visited = r.visited,
                                       !.before = cost, !.session = r.session,
                                       !.rc = 0,
                                       !.printed = "success"]
           /\ runs' = IF r.outcome = "ok" THEN (IF runs < 2 THEN runs + 1 ELSE 2) ELSE 0
           /\ UNCHANGED <<other_tables, ingredient_rows, food_paper_cost, products>>

\* sync_product_costs.main: recalculate_all_costs in an app context of its own;
\* after the call it prints the success lines and
\* returns 0; when the call raised it prints the error and returns 1.
Main ==
    \E order \in BatchOrders, commit_ok \in BOOLEAN :
        \E r \in {RecalculateAllCosts(cost, order, commit_ok)} :
           /\ cost' = r.cost
           /\ Bounded(cost')
           /\ last' = [NoResult EXCEPT !.op = "recalculate_all_costs",
                                       !.outcome = r.outcome, !.count = r.count,
                                       !.report = r.report, !.visited = r.visited,
                                       !.before = cost, !.session = r.session,
                                       !.rc = IF r.outcome = "ok" THEN 0 ELSE 1,
                                       !.printed = IF r.outcome = "ok"
                                                   THEN "success" ELSE "error"]
           /\ runs' = IF r.outcome = "ok" THEN (IF runs < 2 THEN runs + 1 ELSE 2) ELSE 0
           /\ UNCHANGED <<other_tables, ingredient_rows, food_paper_cost, products>>

\* A write of column ingredients.food_paper_cost of an ingredient in use,
\* committed.
SetIngredientCost(i, v) ==
    /\ HasIngredient(i)
    /\ UsedIn(i) # {}
    /\ food_paper_cost[i] # v
    /\ food_paper_cost' = [food_paper_cost EXCEPT ![i] = v]
    /\ runs' = 0
    /\ last' = [NoResult EXCEPT !.op = "set_ingredient_cost", !.target = i,
                                !.before = cost, !.session = cost]
    /\ UNCHANGED <<other_tables, ingredient_rows, products, cost>>

\* update_product (PUT /api/products/<id>) with key 'ingredients': the lines of
\* the product are deleted, then one ProductIngredient(..., quantity=...) is
\* built per entry.  The model has no quantity attribute, so the constructor
\* raises TypeError on the first entry and the handler rolls back; an entry
\* for an ingredient with no row returns 400 before the commit.  Only the
\* empty list reaches the commit: it leaves the product without lines.  The
\* requests taken are those for a product that has lines.
Payloads == {{}, {1}}

\* Faulty variant: the handler recomputes the product's cost before the commit.
UpdateProductRecalculating(p, ingredients) ==
    /\ LineIds(p) # {}
    /\ ingredients = {}
    /\ products' = [products EXCEPT ![p].lines = NoLines]
    /\ cost' = [cost EXCEPT ![p] = IF products[p].product_type = "product" THEN 0 ELSE @]
    /\ last' = [NoResult EXCEPT !.op = "update_product", !.target = p,
                                !.before = cost, !.session = cost']
    /\ runs' = 0
    /\ UNCHANGED <<other_tables, ingredient_rows, food_paper_cost>>

UpdateProduct(p, ingredients) ==
    /\ LineIds(p) # {}
    /\ IF ingredients = {}
       THEN /\ products' = [products EXCEPT ![p].lines = NoLines]
            /\ last' = [NoResult EXCEPT !.op = "update_product", !.target = p,
                                        !.before = cost, !.session = cost]
       ELSE /\ products' = products
            /\ last' = [NoResult EXCEPT !.op = "update_product", !.target = p,
                                        !.outcome = "raised",
                                        !.before = cost, !.session = cost]
    /\ runs' = 0
    /\ UNCHANGED <<other_tables, ingredient_rows, food_paper_cost, cost>>

Next ==
    \/ \E p \in ProductIds : RecalculateCost(p)
    \/ \E p \in ProductIds : UpdateDependentMenus(p)
    \/ Main
    \/ \E i \in IngredientIds, v \in 0 .. MaxPrice : SetIngredientCost(i, v)
    \/ \E p \in ProductIds, ingredients \in Payloads : UpdateProduct(p, ingredients)

Spec == Init /\ [][Next]_vars

\* ------------------------------------------- the forms and the listings
\* The same tables at the amounts of the forms: a regular product with a stored
\* cost, menus on it with the sizes and add-on costs of the menu form, and
\* the handlers that derive a cost or a profit from a price.
BaseCost == 300
SellingPrice == 500
\* (x / y) * 100 in the margins.
Hundred == 100

Sizes == {NoSize, "small", "medium", "large"}

\* create_menu: fries_prices, drink_prices.
FriesPrices(size) ==
    CASE size = "small" -> 250 [] size = "medium" -> 300 [] size = "large" -> 350
      [] OTHER -> 0

DrinkPrices(size) ==
    CASE size = "small" -> 150 [] size = "medium" -> 200 [] size = "large" -> 250
      [] OTHER -> 0

\* The nearest integer to n / d, d > 0: a float quotient at the model's grain.
RoundDiv(n, d) ==
    IF n >= 0 THEN (2 * n + d) \div (2 * d) ELSE -((2 * (-n) + d) \div (2 * d))

\* The selling price of the menu form: the field left empty, or an amount.
FormPrices ==
    {[given |-> FALSE, amount |-> 0]} \cup [given : {TRUE}, amount : {0, SellingPrice}]

MenuForms ==
    [selling_price : FormPrices, sandwich_id : {NULL, 1},
     fries_size : Sizes, drink_size : Sizes]

PricedRows ==
    [p \in ProductIds |->
        IF p = 1
        THEN {[product_type |-> "product", is_active |-> TRUE, base_product_id |-> NULL,
               fries_size |-> NoSize, fries_fp_cost |-> 0,
               drink_size |-> NoSize, drink_fp_cost |-> 0, lines |-> NoLines]}
        ELSE {[product_type |-> "menu", is_active |-> TRUE, base_product_id |-> 1,
               fries_size |-> f, fries_fp_cost |-> fc,
               drink_size |-> d, drink_fp_cost |-> dc, lines |-> NoLines] :
                 f \in Sizes, d \in Sizes,
                 fc \in {0, FriesPrices("large")}, dc \in {0, DrinkPrices("medium")}}]

InitPriced ==
    /\ products \in {c \in [ProductIds -> UNION {PricedRows[p] : p \in ProductIds}] :
                        \A p \in ProductIds : c[p] \in PricedRows[p]}
    /\ ingredient_rows = IngredientIds
    /\ food_paper_cost = [i \in IngredientIds |-> 0]
    /\ cost \in {c \in [ProductIds -> {0, BaseCost}] : \A p \in ProductIds : p # 1 => c[p] = 0}
    /\ runs = 0
    /\ last = NoResult
    /\ OtherTablesIdle

\* A profit field nothing was assigned to.
Unset == [set |-> FALSE, value |-> 0]

\* Faulty variant: a request without selling price gets profit fields of 0.
CreateMenuZeroProfit(form) ==
    /\ last' = [op |-> "create_menu", target |-> 0,
                outcome |-> IF form.selling_price.given THEN "raised" ELSE "refused",
                form |-> form, created |-> FALSE,
                gross_profit |-> [set |-> TRUE, value |-> 0],
                gross_profit_percent |-> [set |-> TRUE, value |-> 0],
                before |-> cost, session |-> cost]
    /\ UNCHANGED <<other_tables, ingredient_rows, food_paper_cost, products, cost, runs>>

\* create_menu (POST /products/menu/new).  An empty required field is refused
\* with a redirect.  Otherwise the handler builds Product(selling_price=...,
\* sandwich_id=..., restaurant_id=..., delivery_price_id=..., ...): Product has
\* none of these attributes, the constructor raises TypeError, and the handler
\* rolls back.  The cost from the price table and the profit are computed after
\* the constructor: no request reaches them, and no menu is stored.
CreateMenu(form) ==
    /\ last' = [op |-> "create_menu", target |-> 0,
                outcome |-> IF form.selling_price.given THEN "raised" ELSE "refused",
                form |-> form, created |-> FALSE,
                gross_profit |-> Unset, gross_profit_percent |-> Unset,
                before |-> cost, session |-> cost]
    /\ UNCHANGED <<other_tables, ingredient_rows, food_paper_cost, products, cost, runs>>

\* Product.recalculate_cost on product p of the priced catalog, then the
\* caller's commit.
RecalculatePriced(p) ==
    /\ ~Raises(p)
    /\ cost' = [cost EXCEPT ![p] = NewCost(cost, p)]
    /\ last' = [NoResult EXCEPT !.op = "recalculate_cost", !.target = p,
                                !.before = cost, !.session = cost']
    /\ UNCHANGED <<other_tables, ingredient_rows, food_paper_cost, products, runs>>

\* ProductListing: the profit and margin methods of a listing of product p at a
\* local and a delivery price, on floats (mills; a percentage in thousandths).
GetTotalFoodPaperCost(p) == ToFloat(cost[p])
GetGrossProfit(price, p) == ToFloat(price) - GetTotalFoodPaperCost(p)
GetGrossProfitMargin(price, p) ==
    IF price > 0
    THEN RoundDiv(GetGrossProfit(price, p) * Hundred * MillsPerCent * Hundred, ToFloat(price))
    ELSE 0

ListingMargins(p, local_price, delivery_price) ==
    /\ last' = [op |-> "listing_margins", target |-> p, outcome |-> "ok",
                local_price |-> local_price, delivery_price |-> delivery_price,
                gross_profit_local |-> GetGrossProfit(local_price, p),
                gross_profit_delivery |-> GetGrossProfit(delivery_price, p),
                margin_local |-> GetGrossProfitMargin(local_price, p),
                margin_delivery |-> GetGrossProfitMargin(delivery_price, p),
                before |-> cost, session |-> cost]
    /\ UNCHANGED <<other_tables, ingredient_rows, food_paper_cost, products, cost, runs>>

\* Product.calculate_fp_cost, a Decimal, in cents: the stored cost, and for a
\* menu the fries and drink costs whose size is set.
CalculateFpCost(p) ==
    cost[p]
    + (IF products[p].product_type = "menu"
       THEN (IF products[p].fries_size # NoSize THEN products[p].fries_fp_cost ELSE 0)
            + (IF products[p].drink_size # NoSize THEN products[p].drink_fp_cost ELSE 0)
       ELSE 0)

\* price_comparison: total_fp_cost of a product row, a float.
ComparisonFpCost(p) ==
    ToFloat(cost[p])
    + (IF products[p].product_type = "menu"
       THEN ToFloat(products[p].fries_fp_cost) + ToFloat(products[p].drink_fp_cost)
       ELSE 0)

\* The cost of product p as each pricing view computes it.
PricingViews(p) ==
    /\ last' = [op |-> "pricing_views", target |-> p, outcome |-> "ok",
                listing_cost |-> GetTotalFoodPaperCost(p),
                calculate_fp_cost |-> CalculateFpCost(p),
                comparison_cost |-> ComparisonFpCost(p),
                before |-> cost, session |-> cost]
    /\ UNCHANGED <<other_tables, ingredient_rows, food_paper_cost, products, cost, runs>>

NextPriced ==
    \/ \E form \in MenuForms : CreateMenu(form)
    \/ \E p \in ProductIds : RecalculatePriced(p)
    \/ \E p \in ProductIds, l, d \in {0, SellingPrice} : ListingMargins(p, l, d)
    \/ \E p \in ProductIds : PricingViews(p)

SpecPriced == InitPriced /\ [][NextPriced]_vars

\* ------------------------------------------------ engine tables at rest
\* The costing tables as the other handlers find them and leave them: products
\* without lines, stored costs of 0.
EngineAtRest ==
    /\ ingredient_rows = IngredientIds
    /\ food_paper_cost = [i \in IngredientIds |-> 0]
    /\ products = [p \in ProductIds |->
                     [product_type |-> "product", is_active |-> TRUE,
                      base_product_id |-> NULL,
                      fries_size |-> NoSize, fries_fp_cost |-> 0,
                      drink_size |-> NoSize, drink_fp_cost |-> 0, lines |-> NoLines]]
    /\ cost = [p \in ProductIds |-> 0]
    /\ runs = 0

engine_tables == <<ingredient_rows, food_paper_cost, products, cost, runs>>

\* ======================================================== user accounts
\* edit_user and toggle_user_status (src/app/routes/users.py) over the rows of
\* table users.
NumUsers == 2
UserIds == 1 .. NumUsers
\* role: admin, manager, user.
Roles == {"admin", "manager", "user"}
\* username is unique; one name more than there are rows.
Usernames == <<"anna", "bruno", "carla">>

\* User.is_admin
IsAdmin(u) == users[u].role = "admin"

\* admin_required: current_user.is_authenticated, which UserMixin answers with
\* is_active, and current_user.is_admin().
AdminRequired(u) == users[u].is_active /\ IsAdmin(u)

InitUsers ==
    /\ EngineAtRest
    /\ users \in {us \in [UserIds -> [username : {Usernames[i] : i \in UserIds},
                                       role : Roles, is_active : BOOLEAN]] :
                     \A u \in UserIds : us[u].username = Usernames[u]}
    /\ restaurants = <<>>
    /\ product_listings = <<>>
    /\ product_rows = {}
    /\ product_ingredients = <<>>
    /\ batch = NoBatch
    /\ last = [op |-> "none", current |-> 0, target |-> 0, outcome |-> "ok",
               before |-> users]

\* The form of users/edit.html: is_active is a checkbox, present or absent.
UserForms ==
    [username : {Usernames[i] : i \in 1 .. Len(Usernames)}, role : Roles,
     is_active : BOOLEAN]

\* edit_user (POST /users/<id>/edit) by the logged-in admin current: the row
\* takes username, role and is_active of the form; a username another row holds
\* is refused before the commit, and the session is discarded.
EditUser(current, id, form) ==
    /\ AdminRequired(current)
    /\ LET existing_user == \E o \in UserIds : o # id /\ users[o].username = form.username
       IN /\ users' = IF existing_user THEN users
                      ELSE [users EXCEPT ![id] = [username |-> form.username,
                                                  role |-> form.role,
                                                  is_active |-> form.is_active]]
          /\ last' = [op |-> "edit_user", current |-> current, target |-> id,
                      outcome |-> IF existing_user THEN "refused" ELSE "ok",
                      before |-> users]
    /\ UNCHANGED <<engine_tables, restaurants, product_listings, product_rows,
                   product_ingredients, batch>>

\* toggle_user_status (POST /users/<id>/toggle-status) by the logged-in admin
\* current: refused on the admin's own row, otherwise is_active is negated.
ToggleUserStatus(current, id) ==
    /\ AdminRequired(current)
    /\ users' = IF id = current THEN users
                ELSE [users EXCEPT ![id].is_active = ~users[id].is_active]
    /\ last' = [op |-> "toggle_user_status", current |-> current, target |-> id,
                outcome |-> IF id = current THEN "refused" ELSE "ok",
                before |-> users]
    /\ UNCHANGED <<engine_tables, restaurants, product_listings, product_rows,
                   product_ingredients, batch>>

NextUsers ==
    \/ \E current, id \in UserIds, form \in UserForms : EditUser(current, id, form)
    \/ \E current, id \in UserIds : ToggleUserStatus(current, id)

SpecUsers == InitUsers /\ [][NextUsers]_vars

\* ================================================= soft delete and restore
\* delete_product, bulk_delete_products and restore_product
\* (src/app/routes/products.py) over the priced catalog: product 1 with menus
\* on it, every row active.  The caller is a manager or the creator of the row.

\* The active menus whose base product is id.
ActiveMenusOn(id) ==
    {m \in ProductIds : /\ products[m].product_type = "menu"
                        /\ products[m].is_active
                        /\ products[m].base_product_id = id}

\* The in-use check of the two delete handlers: entered for product_type
\* 'sandwich' only, where it filters on Product.sandwich_id, which Product does
\* not have, and raises.  products_type_check admits 'product' and 'menu'.
InUseCheckRaises(id) == products[id].product_type = "sandwich"

\* delete_product (POST /products/<id>/delete): is_active = False, commit.
DeleteProduct(id) ==
    /\ products' = IF InUseCheckRaises(id) THEN products
                   ELSE [products EXCEPT ![id].is_active = FALSE]
    /\ last' = [op |-> "delete_product", target |-> id,
                outcome |-> IF InUseCheckRaises(id) THEN "raised" ELSE "ok",
                menus |-> ActiveMenusOn(id), before |-> products]
    /\ UNCHANGED <<other_tables, ingredient_rows, food_paper_cost, cost, runs>>

\* The request bodies of bulk_delete_products: lists of one or two ids, the id
\* of no row among them.
BulkRequests ==
    {<<a>> : a \in ProductIds \cup {MissingId}}
    \cup {<<a, b>> : a, b \in ProductIds \cup {MissingId}}

\* The ids of the list that have a row and pass the in-use check.
BulkDeleted(product_ids) ==
    {product_ids[k] : k \in {j \in 1 .. Len(product_ids) :
                               /\ HasProduct(product_ids[j])
                               /\ ~InUseCheckRaises(product_ids[j])}}

\* bulk_delete_products (POST /products/bulk-delete): each id of the list in
\* turn; an id without row adds an error; a row is set inactive and counted;
\* one commit after the loop.
BulkDeleteProducts(product_ids) ==
    /\ products' = [p \in ProductIds |->
                      IF p \in BulkDeleted(product_ids)
                      THEN [products[p] EXCEPT !.is_active = FALSE]
                      ELSE products[p]]
    /\ last' = [op |-> "bulk_delete_products", target |-> 0, outcome |-> "ok",
                product_ids |-> product_ids,
                deleted_count |-> Cardinality({k \in 1 .. Len(product_ids) :
                                         product_ids[k] \in BulkDeleted(product_ids)}),
                errors |-> Cardinality({k \in 1 .. Len(product_ids) :
                                         product_ids[k] \notin BulkDeleted(product_ids)}),
                before |-> products]
    /\ UNCHANGED <<other_tables, ingredient_rows, food_paper_cost, cost, runs>>

\* restore_product (POST /products/restore/<id>): is_active = True, commit.
RestoreProduct(id) ==
    /\ products' = [products EXCEPT ![id].is_active = TRUE]
    /\ last' = [op |-> "restore_product", target |-> id, outcome |-> "ok",
                before |-> products]
    /\ UNCHANGED <<other_tables, ingredient_rows, food_paper_cost, cost, runs>>

NextCatalog ==
    \/ \E id \in ProductIds : DeleteProduct(id)
    \/ \E product_ids \in BulkRequests : BulkDeleteProducts(product_ids)
    \/ \E id \in ProductIds : RestoreProduct(id)

SpecCatalog == InitPriced /\ [][NextCatalog]_vars

\* ==================================================== the product API
\* create_product and update_product (src/app/api/routes.py) over the rows of
\* products and product_ingredients.  Each request has a session of its own:
\* what the handler does not commit is discarded when the request ends.
MaxProductRows == 2
MaxListed == 2
\* An ingredient id with no row: Ingredient.query.get returns None for it.
UnknownIngredient == NumIngredients + 1

\* data['ingredients']: the ingredient_id of each entry, in order.
IngredientLists ==
    UNION {[1 .. n -> IngredientIds \cup {UnknownIngredient}] : n \in 0 .. MaxListed}

\* The columns of ProductIngredient, and the keywords both handlers pass to its
\* constructor; the declarative constructor raises TypeError on a keyword that
\* is no attribute of the class.
ProductIngredientColumns == {"id", "product_id", "ingredient_id"}
HandlerKeywords == {"product_id", "ingredient_id", "quantity"}
ConstructorRaises == ~(HandlerKeywords \subseteq ProductIngredientColumns)

\* UniqueConstraint('product_id', 'ingredient_id') on a list of rows.
UniqueLines(lines) ==
    \A j, k \in 1 .. Len(lines) : lines[j] = lines[k] => j = k

\* The loop over data['ingredients'] from session rows lines: an id without
\* ingredient returns 400 on the spot; ProductIngredient(...) may raise; else
\* the row is added to the session.
RECURSIVE AddLines(_, _, _)
AddLines(lines, product_id, ingredients) ==
    IF ingredients = <<>> THEN [outcome |-> "ok", lines |-> lines]
    ELSE IF ~HasIngredient(Head(ingredients))
         THEN [outcome |-> "not_found", lines |-> lines]
    ELSE IF ConstructorRaises
         THEN [outcome |-> "raised", lines |-> lines]
    ELSE AddLines(Append(lines, [product_id |-> product_id,
                                 ingredient_id |-> Head(ingredients)]),
                  product_id, Tail(ingredients))

\* db.session.commit() after the loop: IntegrityError on rows that break the
\* unique constraint.
Committed(r) == r.outcome = "ok" /\ UniqueLines(r.lines)

ApiOutcome(r) ==
    IF r.outcome = "ok" /\ ~UniqueLines(r.lines) THEN "raised" ELSE r.outcome

\* The rows of product_ingredients of product id.
LinesOf(lines, id) ==
    SelectSeq(lines, LAMBDA row : row.product_id = id)

InitApi ==
    /\ EngineAtRest
    /\ users = <<>>
    /\ restaurants = <<>>
    /\ product_listings = <<>>
    /\ batch = NoBatch
    /\ product_rows = {1}
    /\ product_ingredients \in
          {lines \in UNION {[1 .. n -> [product_id : {1}, ingredient_id : IngredientIds]] :
                              n \in 0 .. NumIngredients} : UniqueLines(lines)}
    /\ last = [op |-> "none", target |-> 0, outcome |-> "ok", given |-> FALSE,
               ingredients |-> <<>>, before_rows |-> product_rows,
               before_lines |-> product_ingredients]

\* Faulty variant: no rollback, the flushed product row is committed.
ApiCreateProductNoRollback(ingredients) ==
    /\ Cardinality(product_rows) < MaxProductRows
    /\ LET id == Cardinality(product_rows) + 1
           r == AddLines(product_ingredients, id, ingredients)
       IN /\ product_rows' = product_rows \cup {id}
          /\ product_ingredients' = r.lines
          /\ last' = [op |-> "create_product", target |-> id,
                      outcome |-> ApiOutcome(r), given |-> TRUE,
                      ingredients |-> ingredients, before_rows |-> product_rows,
                      before_lines |-> product_ingredients]
    /\ UNCHANGED <<engine_tables, users, restaurants, product_listings, batch>>

\* create_product (POST /api/products): the product is added and flushed, the
\* lines are added, commit.  The return of 400 leaves the session uncommitted;
\* an exception is rolled back.
ApiCreateProduct(ingredients) ==
    /\ Cardinality(product_rows) < MaxProductRows
    /\ LET id == Cardinality(product_rows) + 1
           r == AddLines(product_ingredients, id, ingredients)
       IN /\ product_rows' = IF Committed(r) THEN product_rows \cup {id}
                             ELSE product_rows
          /\ product_ingredients' = IF Committed(r) THEN r.lines
                                    ELSE product_ingredients
          /\ last' = [op |-> "create_product", target |-> id,
                      outcome |-> ApiOutcome(r), given |-> TRUE,
                      ingredients |-> ingredients, before_rows |-> product_rows,
                      before_lines |-> product_ingredients]
    /\ UNCHANGED <<engine_tables, users, restaurants, product_listings, batch>>

\* Faulty variant: the delete of the old lines is committed before the loop.
ApiUpdateProductKeepingDelete(product_id, given, ingredients) ==
    /\ product_id \in product_rows
    /\ LET cleared == SelectSeq(product_ingredients,
                                LAMBDA row : row.product_id # product_id)
           r == IF given THEN AddLines(cleared, product_id, ingredients)
                ELSE [outcome |-> "ok", lines |-> product_ingredients]
       IN /\ product_ingredients' = IF Committed(r) THEN r.lines
                                    ELSE IF given THEN cleared
                                    ELSE product_ingredients
          /\ last' = [op |-> "update_product", target |-> product_id,
                      outcome |-> ApiOutcome(r), given |-> given,
                      ingredients |-> ingredients, before_rows |-> product_rows,
                      before_lines |-> product_ingredients]
    /\ UNCHANGED <<engine_tables, users, restaurants, product_listings, batch,
                   product_rows>>

\* update_product (PUT /api/products/<product_id>) on a row that exists: with
\* 'ingredients' in the body, the lines of the product are deleted in the
\* session and the listed ones added; commit.  The return of 400 leaves the
\* session uncommitted; an exception is rolled back.
ApiUpdateProduct(product_id, given, ingredients) ==
    /\ product_id \in product_rows
    /\ LET cleared == SelectSeq(product_ingredients,
                                LAMBDA row : row.product_id # product_id)
           r == IF given THEN AddLines(cleared, product_id, ingredients)
                ELSE [outcome |-> "ok", lines |-> product_ingredients]
       IN /\ product_ingredients' = IF Committed(r) THEN r.lines
                                    ELSE product_ingredients
          /\ last' = [op |-> "update_product", target |-> product_id,
                      outcome |-> ApiOutcome(r), given |-> given,
                      ingredients |-> ingredients, before_rows |-> product_rows,
                      before_lines |-> product_ingredients]
    /\ UNCHANGED <<engine_tables, users, restaurants, product_listings, batch,
                   product_rows>>

NextApi ==
    \/ \E ingredients \in IngredientLists : ApiCreateProduct(ingredients)
    \/ \E product_id \in 1 .. MaxProductRows, given \in BOOLEAN,
          ingredients \in IngredientLists :
            ApiUpdateProduct(product_id, given, ingredients)

SpecApi == InitApi /\ [][NextApi]_vars

\* ================================================ the restaurants import
\* import_restaurants (src/app/routes/restaurant_mapping.py) over the rows of
\* table restaurants.  A field of a CSV row is kept as its stripped text; ""
\* is the empty field.  address and city, required as name is and handled by
\* the same loop, are filled in every row.
MaxRestaurants == 3
MaxFileRows == 2

\* The rows of an uploaded restaurants file, and the files of up to two rows.
RestaurantCsvRows == [name : {"", "Roma Centro"}, restaurant_code : {"", "R1", "R2"}]
RestaurantFiles ==
    UNION {[1 .. n -> RestaurantCsvRows] : n \in 1 .. MaxFileRows}

\* for col in required_columns: if not row.get(col, '').strip(): one error per
\* empty column; the continue is that of the loop over the columns.
EmptyRequired(row, required_columns) == {col \in required_columns : row[col] = ""}

\* Restaurant.query.filter_by(restaurant_code=...).first() on the session.
RestaurantByCode(table, code) ==
    {k \in 1 .. Len(table) : table[k].restaurant_code = code}

\* One pass of the loop of import_restaurants over the rows from row k on: r
\* holds the session's table, imported_count, the rows imported and the errors
\* as (row number, message kind).
RECURSIVE ImportRestaurantRows(_, _, _)
ImportRestaurantRows(rows, k, r) ==
    IF k > Len(rows) THEN r
    ELSE LET row == rows[k]
             empties == {[row |-> k + 1, kind |-> "empty", col |-> col] :
                            col \in EmptyRequired(row, {"name", "restaurant_code"})}
             existing == RestaurantByCode(r.table, row.restaurant_code) # {}
         IN ImportRestaurantRows(rows, k + 1,
              IF existing
              THEN [r EXCEPT !.errors = @ \cup empties
                                 \cup {[row |-> k + 1, kind |-> "exists", col |-> ""]}]
              ELSE [table |-> Append(r.table, [name |-> row.name,
                                               restaurant_code |-> row.restaurant_code]),
                    imported_count |-> r.imported_count + 1,
                    imported |-> r.imported \cup {k + 1},
                    errors |-> r.errors \cup empties])

InitRestaurants ==
    /\ EngineAtRest
    /\ users = <<>>
    /\ product_listings = <<>>
    /\ product_rows = {}
    /\ product_ingredients = <<>>
    /\ batch = NoBatch
    /\ restaurants = <<>>
    /\ last = [op |-> "none", outcome |-> "ok", rows |-> <<>>, imported_count |-> 0,
               imported |-> {}, errors |-> {}, before |-> <<>>]

\* import_restaurants (POST /import/restaurants) with a file that has the
\* required columns: the loop, then a commit when a row was imported.
ImportRestaurants(rows) ==
    /\ Len(restaurants) + Len(rows) <= MaxRestaurants
    /\ \E r \in {ImportRestaurantRows(rows, 1,
                    [table |-> restaurants, imported_count |-> 0,
                     imported |-> {}, errors |-> {}])} :
          /\ restaurants' = IF r.imported_count > 0 THEN r.table ELSE restaurants
          /\ last' = [op |-> "import_restaurants", outcome |-> "ok", rows |-> rows,
                      imported_count |-> r.imported_count, imported |-> r.imported,
                      errors |-> r.errors, before |-> restaurants]
    /\ UNCHANGED <<engine_tables, users, product_listings, product_rows,
                   product_ingredients, batch>>

NextRestaurants == \E rows \in RestaurantFiles : ImportRestaurants(rows)

SpecRestaurants == InitRestaurants /\ [][NextRestaurants]_vars

\* ==================================================== product listings
\* save_listing and import_product_listings
\* (src/app/routes/restaurant_mapping.py) over the rows of product_listings,
\* with one restaurant stored and the products of the catalog; the caller of
\* save_listing is a manager.  is_available plays no part and is left out.

\* Product.name of each row; names are not unique.
ProductName(p) == IF p = 1 THEN "Burger" ELSE "Menu"

\* Product.query.filter_by(name=...).first()
ProductByName(name) ==
    IF \E p \in ProductIds : ProductName(p) = name
    THEN CHOOSE p \in ProductIds :
            /\ ProductName(p) = name
            /\ \A q \in ProductIds : ProductName(q) = name => p <= q
    ELSE NULL

\* Decimal(str(text)) in cents: InvalidOperation on the empty text.
DecimalOf(text) ==
    [ok |-> text # "",
     value |-> IF text = "5.00" THEN 500 ELSE IF text = "6.50" THEN 650 ELSE 0]

\* ProductListing.query.filter_by(restaurant_id=..., product_id=...).first()
ListingOf(table, restaurant_id, product_id) ==
    {k \in 1 .. Len(table) : /\ table[k].restaurant_id = restaurant_id
                             /\ table[k].product_id = product_id}

\* UniqueConstraint('restaurant_id', 'product_id')
UniqueListings(table) ==
    \A j, k \in 1 .. Len(table) :
        (/\ table[j].restaurant_id = table[k].restaurant_id
         /\ table[j].product_id = table[k].product_id) => j = k

\* The rows of an uploaded listings file, and the files of up to two rows.
ListingCsvRows ==
    [restaurant_code : {"", "R1"}, product_name : {"", "Menu"},
     local_price : {"", "5.00"}, delivery_price : {"6.50"}]
ListingFiles == UNION {[1 .. n -> ListingCsvRows] : n \in 1 .. MaxFileRows}

\* One pass of the loop of import_product_listings over the rows from row k on.
RECURSIVE ImportListingRows(_, _, _)
ImportListingRows(rows, k, r) ==
    IF k > Len(rows) THEN r
    ELSE LET row == rows[k]
             empties == {[row |-> k + 1, kind |-> "empty", col |-> col] :
                            col \in EmptyRequired(row, {"restaurant_code", "product_name",
                                                        "local_price", "delivery_price"})}
             found == RestaurantByCode(restaurants, row.restaurant_code)
             restaurant_id == IF found = {} THEN NULL ELSE CHOOSE j \in found : TRUE
             product_id == ProductByName(row.product_name)
             local_price == DecimalOf(row.local_price)
             delivery_price == DecimalOf(row.delivery_price)
             kind == IF restaurant_id = NULL THEN "no_restaurant"
                     ELSE IF product_id = NULL THEN "no_product"
                     ELSE IF ListingOf(r.table, restaurant_id, product_id) # {}
                          THEN "exists"
                     ELSE IF ~local_price.ok \/ ~delivery_price.ok THEN "exception"
                     ELSE "imported"
         IN ImportListingRows(rows, k + 1,
              IF kind # "imported"
              THEN [r EXCEPT !.errors = @ \cup empties
                                 \cup {[row |-> k + 1, kind |-> kind, col |-> ""]}]
              ELSE [table |-> Append(r.table,
                                     [restaurant_id |-> restaurant_id,
                                      product_id |-> product_id,
                                      local_price |-> local_price.value,
                                      delivery_price |-> delivery_price.value]),
                    imported_count |-> r.imported_count + 1,
                    imported |-> r.imported \cup {k + 1},
                    errors |-> r.errors \cup empties])

InitListings ==
    /\ EngineAtRest
    /\ users = <<>>
    /\ product_rows = {}
    /\ product_ingredients = <<>>
    /\ batch = NoBatch
    /\ restaurants = <<[name |-> "Roma Centro", restaurant_code |-> "R1"]>>
    /\ product_listings = <<>>
    /\ last = [op |-> "none", outcome |-> "ok", action |-> "none",
               restaurant_id |-> 0, product_id |-> 0, before |-> <<>>]

\* Faulty variant: the handler never looks for an existing listing.
SaveListingAlwaysCreating(restaurant_id, product_id, local_price, delivery_price) ==
    /\ Len(product_listings) <= Len(restaurants) * NumProducts
    /\ LET found == restaurant_id \in 1 .. Len(restaurants) /\ HasProduct(product_id)
           listing == [restaurant_id |-> restaurant_id, product_id |-> product_id,
                       local_price |-> local_price, delivery_price |-> delivery_price]
       IN /\ product_listings' = IF found THEN Append(product_listings, listing)
                                 ELSE product_listings
          /\ last' = [op |-> "save_listing",
                      outcome |-> IF found THEN "ok" ELSE "raised",
                      action |-> IF found THEN "created" ELSE "none",
                      restaurant_id |-> restaurant_id, product_id |-> product_id,
                      listing |-> listing, before |-> product_listings]
    /\ UNCHANGED <<engine_tables, users, restaurants, product_rows,
                   product_ingredients, batch>>

\* save_listing (POST /listings/save): get_or_404 on the restaurant and the
\* product, inside the try, so that a missing row ends in the rollback; the
\* listing of the pair is updated when there is one, else created; commit.
SaveListing(restaurant_id, product_id, local_price, delivery_price) ==
    /\ LET found == restaurant_id \in 1 .. Len(restaurants) /\ HasProduct(product_id)
           existing == ListingOf(product_listings, restaurant_id, product_id)
           listing == [restaurant_id |-> restaurant_id, product_id |-> product_id,
                       local_price |-> local_price, delivery_price |-> delivery_price]
       IN /\ product_listings' =
                IF ~found THEN product_listings
                ELSE IF existing # {}
                     THEN [k \in 1 .. Len(product_listings) |->
                             IF k = (CHOOSE j \in existing : \A i \in existing : j <= i)
                             THEN listing ELSE product_listings[k]]
                     ELSE Append(product_listings, listing)
          /\ last' = [op |-> "save_listing",
                      outcome |-> IF found THEN "ok" ELSE "raised",
                      action |-> IF ~found THEN "none"
                                 ELSE IF existing # {} THEN "updated" ELSE "created",
                      restaurant_id |-> restaurant_id, product_id |-> product_id,
                      listing |-> listing, before |-> product_listings]
    /\ UNCHANGED <<engine_tables, users, restaurants, product_rows,
                   product_ingredients, batch>>

\* import_product_listings (POST /import/product-listings) with a file that has
\* the required columns: the loop, then a commit when a row was imported.
ImportProductListings(rows) ==
    /\ \E r \in {ImportListingRows(rows, 1,
                    [table |-> product_listings, imported_count |-> 0,
                     imported |-> {}, errors |-> {}])} :
          /\ product_listings' = IF r.imported_count > 0 THEN r.table
                                 ELSE product_listings
          /\ last' = [op |-> "import_product_listings", outcome |-> "ok",
                      action |-> "none", restaurant_id |-> 0, product_id |-> 0,
                      rows |-> rows, imported_count |-> r.imported_count,
                      imported |-> r.imported, errors |-> r.errors,
                      before |-> product_listings]
    /\ UNCHANGED <<engine_tables, users, restaurants, product_rows,
                   product_ingredients, batch>>

NextListings ==
    \/ \E restaurant_id \in 1 .. MaxRestaurants, product_id \in ProductIds,
          local_price \in {500, 550}, delivery_price \in {650} :
            SaveListing(restaurant_id, product_id, local_price, delivery_price)
    \/ \E rows \in ListingFiles : ImportProductListings(rows)

SpecListings == InitListings /\ [][NextListings]_vars

\* ================================================== the batch, step by step
\* Product.recalculate_all_costs as the interpreter runs it: the two queries
\* fix the items, the loops take one item at a time, then the commit; an
\* exception in an item ends the call with nothing committed.  batch holds the
\* call's position: the items (order), the next one (k), the session's costs,
\* updated_count, the items recomputed so far, and how many calls were begun.
MaxBatches == 2

InitBatch ==
    /\ products \in {c \in Catalogs : \A p \in ProductIds : c[p].is_active}
    /\ ingredient_rows \in {IngredientIds} \cup
            {IngredientIds \ {i} : i \in {j \in {NumIngredients} : UsedIn(j) # {}}}
    /\ food_paper_cost \in {[i \in IngredientIds |-> v] : v \in {0, MaxPrice}}
    /\ cost = [p \in ProductIds |-> 0]
    /\ runs = 0
    /\ last = NoResult
    /\ OtherTablesIdle

\* The call begins: the queries of lines 173 and 182 give the items.
BatchStart ==
    /\ batch.phase \in {"idle", "done"}
    /\ batch.n < MaxBatches
    /\ \E order \in BatchOrders :
          batch' = [phase |-> "running", order |-> order, k |-> 1, cost |-> cost,
                    count |-> 0, visited |-> <<>>, outcome |-> "none",
                    n |-> batch.n + 1]
    /\ UNCHANGED <<engine_tables, last, users, restaurants, product_listings,
                   product_rows, product_ingredients>>

\* Faulty variant: recalculate_cost goes on to the menus built on the product.
BatchStepTriggeringMenus ==
    /\ batch.phase = "running"
    /\ batch.k <= Len(batch.order)
    /\ LET p == batch.order[batch.k]
           new == NewCost(batch.cost, p)
           menus == DependentMenus(p)
           c1 == [batch.cost EXCEPT ![p] = new]
       IN batch' = IF Raises(p)
                   THEN [batch EXCEPT !.phase = "raised"]
                   ELSE [batch EXCEPT
                           !.cost = [m \in ProductIds |->
                                       IF m \in menus /\ m # p THEN NewCost(c1, m)
                                       ELSE c1[m]],
                           !.count = @ + (IF Changed(batch.cost[p], new) THEN 1 ELSE 0),
                           !.visited = Append(@, p)
                                       \o (CHOOSE o \in Orderings(menus \ {p}) : TRUE),
                           !.k = @ + 1]
    /\ UNCHANGED <<engine_tables, last, users, restaurants, product_listings,
                   product_rows, product_ingredients>>

\* One turn of either loop: recalculate_cost on the item, which reads stored
\* costs and calls nothing else, and the comparison with the old cost.
BatchStep ==
    /\ batch.phase = "running"
    /\ batch.k <= Len(batch.order)
    /\ LET p == batch.order[batch.k]
           new == NewCost(batch.cost, p)
       IN batch' = IF Raises(p)
                   THEN [batch EXCEPT !.phase = "raised"]
                   ELSE [batch EXCEPT
                           !.cost = [@ EXCEPT ![p] = new],
                           !.count = @ + (IF Changed(batch.cost[p], new) THEN 1 ELSE 0),
                           !.visited = Append(@, p),
                           !.k = @ + 1]
    /\ UNCHANGED <<engine_tables, last, users, restaurants, product_listings,
                   product_rows, product_ingredients>>

\* db.session.commit() after the loops, and the rollback when it fails.
BatchCommit(commit_ok) ==
    /\ batch.phase = "running"
    /\ batch.k > Len(batch.order)
    /\ cost' = IF commit_ok THEN batch.cost ELSE cost
    /\ batch' = [batch EXCEPT !.phase = "done",
                              !.outcome = IF commit_ok THEN "ok" ELSE "commit_failed"]
    /\ UNCHANGED <<ingredient_rows, food_paper_cost, products, runs, last, users,
                   restaurants, product_listings, product_rows, product_ingredients>>

\* An exception in an item leaves the call, the loops being outside its try;
\* the session is discarded with the app context.
BatchRollback ==
    /\ batch.phase = "raised"
    /\ batch' = [batch EXCEPT !.phase = "done", !.outcome = "raised"]
    /\ UNCHANGED <<engine_tables, last, users, restaurants, product_listings,
                   product_rows, product_ingredients>>

NextBatch ==
    \/ BatchStart
    \/ BatchStep
    \/ \E commit_ok \in BOOLEAN : BatchCommit(commit_ok)
    \/ BatchRollback

\* The call runs in one thread of one process: a step that can be taken is
\* taken.  Nothing obliges anyone to begin a call.
SpecBatch ==
    /\ InitBatch
    /\ [][NextBatch]_vars
    /\ WF_vars(BatchStep)
    /\ WF_vars(\E commit_ok \in BOOLEAN : BatchCommit(commit_ok))
    /\ WF_vars(BatchRollback)

\* ============================================== further specifications end

\* ------------------------------------------------ the claims' vocabulary
\* Amounts in cents, as the columns hold them.
\* The sum over the lines of p of quantity times the ingredient's current cost.
WeightedSum(p) ==
    SumOver(LineIds(p), [i \in IngredientIds |-> products[p].lines[i] * food_paper_cost[i]])

\* The sum over the lines of p of the ingredient's current cost.
FlatSum(p) == SumOver(LineIds(p), food_paper_cost)

\* The cost, among costs c, of the base product menu m refers to; 0 without one.
BaseCents(c, m) ==
    IF HasProduct(products[m].base_product_id) THEN c[products[m].base_product_id] ELSE 0

\* The add-ons selected on menu m: those with a size.
SelectedAddOns(m) ==
    (IF products[m].fries_size # NoSize THEN products[m].fries_fp_cost ELSE 0)
        + (IF products[m].drink_size # NoSize THEN products[m].drink_fp_cost ELSE 0)

\* The add-on costs held on menu m, selected or not.
HeldAddOns(m) == products[m].fries_fp_cost + products[m].drink_fp_cost

IsLeaf(p) == products[p].product_type = "product"
IsMenu(p) == products[p].product_type = "menu"

\* The last operation was recalculate_cost on p and it returned.
Recalculated(p) ==
    /\ last.op = "recalculate_cost"
    /\ last.target = p
    /\ last.outcome = "ok"

\* The last operation recomputed menu m by itself: recalculate_cost on m, or
\* update_dependent_menus on the regular product it is based on.
RecomputedAlone(m) ==
    \/ Recalculated(m)
    \/ /\ last.op = "update_dependent_menus"
       /\ IsLeaf(last.target)
       /\ m \in DependentMenus(last.target)

\* The last operation was a batch that returned; one that raised or failed to
\* commit.
AfterBatch == last.op = "recalculate_all_costs" /\ last.outcome = "ok"
AfterFailedBatch == last.op = "recalculate_all_costs" /\ last.outcome # "ok"

\* The base product of menu m is a menu: another menu or m itself.
MenuBased(m) ==
    /\ IsMenu(m)
    /\ HasProduct(products[m].base_product_id)
    /\ IsMenu(products[m].base_product_id)

\* The base product of menu m is a regular product.
LeafBased(m) ==
    /\ IsMenu(m)
    /\ HasProduct(products[m].base_product_id)
    /\ IsLeaf(products[m].base_product_id)

\* The lines of the last batch's report about product p.
ReportOf(p) == {k \in 1 .. Len(last.report) : last.report[k].product_code = p}

\* -------------------------------------------------------------- claims
\* C1: after recalculate_cost on a leaf product, its stored total cost equals
\* the sum over its ingredient lines of quantity times the ingredient's current
\* price.  The code adds each line's ingredient cost once, whatever the quantity.
C1_LeafCostIsQuantityTimesPrice ==
    \A p \in ProductIds :
        (Recalculated(p) /\ IsLeaf(p)) => cost[p] = WeightedSum(p)

\* C2: recalculate_cost on a menu stores the base product's stored cost at the
\* moment of the call plus the costs of the add-ons selected on the menu; an
\* add-on that is not selected contributes nothing.  The code adds
\* fries_fp_cost and drink_fp_cost whether or not a size is selected.
C2_MenuCostIsBasePlusSelectedAddOns ==
    \A m \in ProductIds :
        (Recalculated(m) /\ IsMenu(m))
            => cost[m] = BaseCents(last.before, m) + SelectedAddOns(m)

\* C3, as stated: a second batch in a row, with no data change since the first,
\* returns 0 and leaves every stored cost as the first left it, in every
\* catalog.  A menu whose base is a menu (itself, or one visited after it)
\* changes again.
C3_IdempotentInEveryCatalog ==
    (AfterBatch /\ runs = 2) => (last.count = 0 /\ cost = last.before)

\* C3, amended: the same, in every catalog in which no menu has a menu as its
\* base product.
C3_IdempotentWithoutMenuBasedMenus ==
    (AfterBatch /\ runs = 2 /\ \A m \in ProductIds : ~MenuBased(m))
        => (last.count = 0 /\ cost = last.before)

\* A second batch in a row over a menu on a regular product of non-zero cost.
C3_Witness ==
    /\ AfterBatch
    /\ runs = 2
    /\ \A m \in ProductIds : ~MenuBased(m)
    /\ \E m \in ProductIds : LeafBased(m) /\ cost[products[m].base_product_id] > 0

\* C4: in a batch every regular product is recomputed before any menu, so one
\* batch brings a regular product and the menus based on it up to date
\* together: each such menu ends at the product's new cost plus its add-ons,
\* and when the product changed and the menu was in step with it before, both
\* are reported and counted.
LeavesFirst(v) ==
    \A i, j \in 1 .. Len(v) : i < j => ~(IsMenu(v[i]) /\ IsLeaf(v[j]))

C4_LeavesBeforeMenus ==
    last.op = "recalculate_all_costs" =>
        /\ LeavesFirst(last.visited)
        /\ last.outcome = "ok" =>
              \A m \in ProductIds :
                  LeafBased(m) =>
                      LET b == products[m].base_product_id
                      IN /\ cost[m] = cost[b] + HeldAddOns(m)
                         /\ ( /\ cost[b] # last.before[b]
                              /\ last.before[m] = last.before[b] + HeldAddOns(m) )
                                => /\ cost[m] # last.before[m]
                                   /\ ReportOf(b) # {}
                                   /\ ReportOf(m) # {}
                                   /\ last.count >= 2

\* A batch after a cost change: the product went from a non-zero cost to a
\* higher one and the menu on it followed, both reported.
C4_Witness ==
    /\ AfterBatch
    /\ last.count = 2
    /\ \E m \in ProductIds :
          /\ LeafBased(m)
          /\ ReportOf(m) # {}
          /\ ReportOf(products[m].base_product_id) # {}
          /\ last.before[products[m].base_product_id] > 0
          /\ cost[products[m].base_product_id] > last.before[products[m].base_product_id]
          /\ last.before[m] = last.before[products[m].base_product_id] + HeldAddOns(m)

\* C5, as stated: after a batch that returned no product is stale, whatever the
\* type of a menu's base product.  A menu based on a menu is left stale when
\* its base is visited after it, or is the menu itself.
C5_NoProductStale ==
    AfterBatch =>
        \A p \in ProductIds :
            /\ IsLeaf(p) => cost[p] = FlatSum(p)
            /\ IsMenu(p) => cost[p] = BaseCents(cost, p) + HeldAddOns(p)

\* C5, amended: after a batch that returned, every regular product's stored
\* cost is the sum of its current ingredient costs and every menu whose base
\* product is not a menu holds its base product's current stored cost (zero
\* without a base product) plus its add-ons.
C5_NoStaleOutsideMenuBasedMenus ==
    AfterBatch =>
        \A p \in ProductIds :
            /\ IsLeaf(p) => cost[p] = FlatSum(p)
            /\ (IsMenu(p) /\ ~MenuBased(p)) => cost[p] = BaseCents(cost, p) + HeldAddOns(p)

\* After a batch: a regular product of two lines of non-zero cost, and a menu
\* with an add-on on it.
C5_Witness ==
    /\ AfterBatch
    /\ \E m \in ProductIds :
          /\ LeafBased(m)
          /\ HeldAddOns(m) > 0
          /\ Cardinality(LineIds(products[m].base_product_id)) = 2
          /\ \A i \in LineIds(products[m].base_product_id) : food_paper_cost[i] > 0

\* C6: when a menu holds its base product's cost of before plus its add-ons and
\* the base product's stored cost has since grown by x, recomputing the menu
\* raises the menu's stored cost by exactly x; the add-on part stays what it was.
C6_BaseIncreasePropagates ==
    \A m \in ProductIds, x \in 0 .. MaxCost :
        ( /\ RecomputedAlone(m)
          /\ IsMenu(m)
          /\ HasProduct(products[m].base_product_id)
          /\ last.before[m] + x
                 = last.before[products[m].base_product_id] + HeldAddOns(m) )
        => /\ cost[m] = last.before[m] + x
           /\ cost[m] - last.before[products[m].base_product_id] = HeldAddOns(m)

\* recalculate_cost on a menu with an add-on whose base product, a regular
\* product, went from a non-zero cost to a higher one since the menu was last
\* recomputed.
C6_Witness ==
    /\ last.op = "recalculate_cost"
    /\ last.outcome = "ok"
    /\ LeafBased(last.target)
    /\ HeldAddOns(last.target) > 0
    /\ last.before[last.target] > HeldAddOns(last.target)
    /\ cost[last.target] > last.before[last.target]

\* C7: the value a batch returns is the number of products whose stored cost
\* after the batch differs from the one before by more than the tolerance: an
\* unchanged product is not counted, and none is counted twice.
C7_CountIsNumberChanged ==
    AfterBatch
        => last.count =
               Cardinality({p \in ProductIds :
                               Abs(cost[p] - last.before[p]) * MillsPerCent > Tolerance})

\* A batch that changed one product and left another, of non-zero cost, as it was.
C7_Witness ==
    /\ AfterBatch
    /\ last.count = 1
    /\ \E p \in ProductIds : cost[p] > 0 /\ cost[p] = last.before[p]

\* C8: a batch that returns has printed exactly one line, with the product's
\* name and code and its old and new cost, for each product whose cost changed
\* and none for the others, and returns the number of lines.
C8_ReportListsExactlyTheChanged ==
    AfterBatch =>
        /\ \A p \in ProductIds :
              Cardinality(ReportOf(p)) = IF cost[p] # last.before[p] THEN 1 ELSE 0
        /\ \A k \in 1 .. Len(last.report) :
              LET e == last.report[k]
              IN /\ e.product_code \in ProductIds
                 /\ e.product_name = e.product_code
                 /\ e.old_cost = last.before[e.product_code]
                 /\ e.new_cost = cost[e.product_code]
        /\ last.count = Len(last.report)

\* A batch whose report has one line, of a cost that went down.
C8_Witness ==
    /\ AfterBatch
    /\ Len(last.report) = 1
    /\ last.report[1].new_cost < last.report[1].old_cost

\* C9: when a batch fails, on an item or on the commit, no stored cost differs
\* from what it was before the call, and the caller gets the error.
C9_FailedBatchStoresNothing ==
    AfterFailedBatch
        => /\ cost = last.before
           /\ last.outcome \in {"raised", "commit_failed"}
           /\ last.rc = 1

\* A batch that changed costs in the session and failed to commit.
C9_Witness ==
    /\ last.op = "recalculate_all_costs"
    /\ last.outcome = "commit_failed"
    /\ Len(last.report) > 0

\* C10: in a batch, a product with a missing referenced entity fails alone:
\* every other product is still recomputed and stored by that batch.  A line
\* whose ingredient row is gone raises out of the batch; nothing is stored.
Visited(p) == \E k \in 1 .. Len(last.visited) : last.visited[k] = p

C10_MissingReferenceFailsOnlyItsItem ==
    (last.op = "recalculate_all_costs" /\ last.outcome # "commit_failed")
        => \A q \in ProductIds :
               ~Raises(q) =>
                   /\ Visited(q)
                   /\ IsLeaf(q) => cost[q] = FlatSum(q)
                   /\ (IsMenu(q) /\ ~MenuBased(q)) => cost[q] = BaseCents(cost, q) + HeldAddOns(q)

\* C11: update_dependent_menus on a regular product recomputes exactly the
\* active menus whose base product it is: each ends at the product's stored
\* cost plus its add-ons, and every other product (an inactive menu, a menu
\* on another base) keeps its stored cost.
C11_ExactlyTheActiveDependents ==
    (last.op = "update_dependent_menus" /\ IsLeaf(last.target)) =>
        \A m \in ProductIds :
            IF /\ IsMenu(m)
               /\ products[m].base_product_id = last.target
               /\ products[m].is_active
            THEN cost[m] = cost[last.target] + HeldAddOns(m)
            ELSE cost[m] = last.before[m]

\* update_dependent_menus on a regular product of non-zero cost with an
\* inactive menu on it that is out of step, and stays so.
C11_Witness ==
    /\ last.op = "update_dependent_menus"
    /\ IsLeaf(last.target)
    /\ cost[last.target] > 0
    /\ \E m \in ProductIds :
          /\ IsMenu(m)
          /\ products[m].base_product_id = last.target
          /\ ~products[m].is_active
          /\ cost[m] # cost[last.target] + HeldAddOns(m)

\* C12: the list update_dependent_menus returns holds exactly the dependent
\* menus whose stored cost changed: none whose recomputed cost is its previous
\* one, and every one that changed by a cent or more.
C12_ReturnsExactlyTheChangedMenus ==
    last.op = "update_dependent_menus" =>
        last.menus =
            {m \in ProductIds :
                /\ IsLeaf(last.target)
                /\ m \in DependentMenus(last.target)
                /\ Abs(cost[m] - last.before[m]) >= 1}

\* update_dependent_menus that returned a menu whose cost moved by one cent.
C12_Witness ==
    /\ last.op = "update_dependent_menus"
    /\ \E m \in last.menus : Abs(cost[m] - last.before[m]) = 1

C14_MenuRecomputeIsOneHop ==
    last.op = "recalculate_cost" =>
        /\ \A q \in ProductIds : q # last.target => cost[q] = last.before[q]
        /\ (last.outcome = "ok" /\ IsMenu(last.target))
              => cost[last.target] = BaseCents(last.before, last.target)
                                        + HeldAddOns(last.target)

\* recalculate_cost on a menu whose base product, a regular product, is stale:
\* the menu took the stale cost and the base product kept it.
C14_Witness ==
    /\ Recalculated(last.target)
    /\ LeafBased(last.target)
    /\ cost[last.target] # last.before[last.target]
    /\ cost[products[last.target].base_product_id]
           # FlatSum(products[last.target].base_product_id)

\* C15, as stated: a batch leaves the stored cost of an inactive product as it
\* was and never reports it.  The two queries of the batch do not filter on
\* is_active.
C15_InactiveUntouched ==
    AfterBatch =>
        \A p \in ProductIds :
            ~products[p].is_active => (cost[p] = last.before[p] /\ ReportOf(p) = {})

\* C15, amended: a batch recomputes every regular product and every menu,
\* active or not, each once; an inactive product is recomputed like any other
\* and reported when its cost changes.
C15_EveryProductRecomputed ==
    AfterBatch =>
        /\ \A p \in ProductIds :
              Cardinality({k \in 1 .. Len(last.visited) : last.visited[k] = p}) = 1
        /\ \A p \in ProductIds :
              ~products[p].is_active =>
                  /\ IsLeaf(p) => cost[p] = FlatSum(p)
                  /\ (IsMenu(p) /\ ~MenuBased(p))
                        => cost[p] = BaseCents(cost, p) + HeldAddOns(p)
                  /\ cost[p] # last.before[p] => ReportOf(p) # {}

\* A batch that changed and reported the cost of an inactive product.
C15_Witness ==
    /\ AfterBatch
    /\ \E p \in ProductIds :
          /\ ~products[p].is_active
          /\ cost[p] # last.before[p]
          /\ ReportOf(p) # {}

\* C16: recalculate_cost on a regular product without lines returns and stores
\* a cost of 0.
C16_NoLinesCostsZero ==
    ( /\ last.op = "recalculate_cost"
      /\ IsLeaf(last.target)
      /\ LineIds(last.target) = {} )
    => (last.outcome = "ok" /\ cost[last.target] = 0)

\* recalculate_cost took a regular product without lines from a non-zero cost
\* to 0.
C16_Witness ==
    /\ Recalculated(last.target)
    /\ IsLeaf(last.target)
    /\ LineIds(last.target) = {}
    /\ last.before[last.target] > 0
    /\ cost[last.target] = 0

\* C17: in recalculate_cost on a regular product a line whose ingredient has no
\* price counts zero: the call returns and stores the sum of the other lines.
\* A line whose ingredient row is gone raises AttributeError.
C17_MissingPriceCountsZero ==
    (last.op = "recalculate_cost" /\ IsLeaf(last.target)) =>
        /\ last.outcome = "ok"
        /\ cost[last.target]
               = SumOver(LineIds(last.target) \cap ingredient_rows, food_paper_cost)

\* C18: the add-on part of a menu's cost comes from the selected sizes through
\* the price table, both when the menu is created and when it is recomputed:
\* base cost 3.00, large fries and medium drink give 8.50.  create_menu stores
\* no menu, and recalculate_cost adds the fries_fp_cost and drink_fp_cost held
\* on the row, whatever the sizes.
C18_AddOnsFromThePriceTable ==
    /\ (last.op = "create_menu" /\ last.form.selling_price.given)
          => /\ last.outcome = "ok"
             /\ last.created
    /\ (last.op = "recalculate_cost" /\ last.outcome = "ok" /\ IsMenu(last.target))
          => cost[last.target]
                 = BaseCents(last.before, last.target)
                     + FriesPrices(products[last.target].fries_size)
                     + DrinkPrices(products[last.target].drink_size)

\* C19: with a selling price given, the profit is the price less the cost and
\* the margin is the profit over the price times 100 for a price above 0, for
\* a product as for the local and delivery price of a listing.  The listing's
\* methods compute so; create_menu, given a selling price, raises before it
\* derives any profit.
C19_ProfitFromSellingPrice ==
    /\ (last.op = "create_menu" /\ last.form.selling_price.given)
          => /\ last.outcome = "ok"
             /\ last.created
    /\ last.op = "listing_margins"
          => /\ last.gross_profit_local
                    = ToFloat(last.local_price) - ToFloat(cost[last.target])
             /\ last.gross_profit_delivery
                    = ToFloat(last.delivery_price) - ToFloat(cost[last.target])
             /\ last.local_price > 0
                    => last.margin_local
                           = RoundDiv(last.gross_profit_local * Hundred * MillsPerCent * Hundred,
                                      ToFloat(last.local_price))
             /\ last.delivery_price > 0
                    => last.margin_delivery
                           = RoundDiv(last.gross_profit_delivery * Hundred * MillsPerCent * Hundred,
                                      ToFloat(last.delivery_price))

\* C20: a selling price of 0 gives a margin of 0 and a profit of 0 less the
\* cost, with no exception and the profit fields set.  The listing's methods
\* do; create_menu with a selling price of 0 raises like any other.
C20_ZeroSellingPrice ==
    /\ ( /\ last.op = "create_menu"
         /\ last.form.selling_price.given
         /\ last.form.selling_price.amount = 0 )
          => /\ last.outcome = "ok"
             /\ last.created
    /\ (last.op = "listing_margins" /\ last.local_price = 0)
          => /\ last.margin_local = 0
             /\ last.gross_profit_local = 0 - ToFloat(cost[last.target])

C22_ViewsReadTheStoredCost ==
    (last.op = "pricing_views" /\ IsMenu(last.target))
        => /\ last.listing_cost = ToFloat(cost[last.target])
           /\ ToFloat(last.calculate_fp_cost) = ToFloat(cost[last.target])
           /\ last.comparison_cost = ToFloat(cost[last.target])

\* C23: sync_product_costs.main returns 0 and prints success exactly when the
\* batch was committed, and returns non-zero and prints the error exactly when
\* recalculate_all_costs raised.
C23_ExitStatusTellsTheOutcome ==
    last.op = "recalculate_all_costs" =>
        /\ last.rc = 0 <=> last.outcome = "ok"
        /\ last.rc # 0 <=> last.outcome \in {"raised", "commit_failed"}
        /\ last.printed = "success" <=> last.outcome = "ok"
        /\ last.outcome = "ok" => cost = last.session

\* main returned non-zero after a batch that raised on an item.
C23_Witness ==
    /\ last.op = "recalculate_all_costs"
    /\ last.outcome = "raised"
    /\ last.rc = 1
    /\ last.printed = "error"

\* C29: an admin never deactivates their own account: after toggle_user_status
\* or edit_user by an admin on the admin's own row, the row is still active.
\* edit_user takes is_active from the form with no look at whose row it is.
C29_AdminNeverDeactivatesSelf ==
    (/\ last.op \in {"toggle_user_status", "edit_user"}
     /\ last.target = last.current)
        => users[last.current].is_active

\* C26: after any sequence of delete, bulk delete and restore, no active menu
\* has an inactive base product.  The in-use check of the delete handlers
\* never applies to a row, and restore_product has none.
C26_NoActiveMenuOnInactiveBase ==
    \A m \in ProductIds :
        (/\ products[m].product_type = "menu"
         /\ products[m].is_active
         /\ HasProduct(products[m].base_product_id))
            => products[products[m].base_product_id].is_active

\* The list names an ingredient twice.
ListsTwice(ingredients) ==
    \E j, k \in 1 .. Len(ingredients) : j # k /\ ingredients[j] = ingredients[k]

\* The list names an id with no row in table ingredients.
ListsUnknown(ingredients) ==
    \E k \in 1 .. Len(ingredients) : ~HasIngredient(ingredients[k])

\* C24: no product ever has two lines for the same ingredient, and a create or
\* update request that lists an ingredient twice is rejected as a whole: it
\* stores neither a product nor a line.
C24_NoDuplicateLines ==
    /\ UniqueLines(product_ingredients)
    /\ (/\ last.op \in {"create_product", "update_product"}
        /\ last.given
        /\ ListsTwice(last.ingredients))
           => /\ last.outcome # "ok"
              /\ product_rows = last.before_rows
              /\ product_ingredients = last.before_lines

\* create_product was sent a list with the same known ingredient twice.
C24_Witness ==
    /\ last.op = "create_product"
    /\ ListsTwice(last.ingredients)
    /\ ~ListsUnknown(last.ingredients)
    /\ last.outcome = "raised"

\* C25: a create request with an unknown ingredient id returns an error and
\* stores no product and no line; an update request with an unknown id returns
\* an error and leaves the lines of the product as they were.
C25_UnknownIngredientStoresNothing ==
    (/\ last.op \in {"create_product", "update_product"}
     /\ last.given
     /\ ListsUnknown(last.ingredients))
        => /\ last.outcome \in {"not_found", "raised"}
           /\ product_rows = last.before_rows
           /\ LinesOf(product_ingredients, last.target)
                = LinesOf(last.before_lines, last.target)
           /\ product_ingredients = last.before_lines

\* update_product on a product with lines was sent an unknown ingredient id
\* first and returned 400.
C25_Witness ==
    /\ last.op = "update_product"
    /\ last.given
    /\ ListsUnknown(last.ingredients)
    /\ last.outcome = "not_found"
    /\ LinesOf(last.before_lines, last.target) # <<>>

\* C30: a row of an import file with an empty required field is never
\* imported: it adds an error, creates nothing and is not counted, and the
\* valid rows of the file are imported all the same.  The continue after the
\* error leaves the loop over the columns, not the row: the row goes on to be
\* created.
C30_EmptyFieldRowNotImported ==
    last.op = "import_restaurants" =>
        /\ \A k \in 1 .. Len(last.rows) :
              EmptyRequired(last.rows[k], {"name", "restaurant_code"}) # {}
                 => /\ \E e \in last.errors : e.row = k + 1 /\ e.kind = "empty"
                    /\ (k + 1) \notin last.imported
        /\ last.imported_count = Cardinality(last.imported)
        /\ Len(restaurants) = Len(last.before) + last.imported_count
        /\ \A j \in 1 .. Len(restaurants) : restaurants[j].name # ""

HasBaseCycle ==
    \E m, b \in ProductIds :
        /\ products[m].product_type = "menu" /\ products[b].product_type = "menu"
        /\ products[m].base_product_id = b
        /\ products[b].base_product_id = m

\* C27: a call of recalculate_all_costs ends, whatever the catalog, cycles of
\* base references included; it recomputes no product twice, and when it
\* ends with a commit it has recomputed every product once.
C27_BatchTerminates ==
    /\ [](/\ \A j, k \in 1 .. Len(batch.visited) :
                batch.visited[j] = batch.visited[k] => j = k
          /\ Len(batch.visited) <= NumProducts
          /\ (batch.phase = "done" /\ batch.outcome = "ok")
                => {batch.visited[k] : k \in 1 .. Len(batch.visited)} = ProductIds)
    /\ (batch.phase = "running") ~> (batch.phase = "done")

\* A call over a catalog with a cycle of base references ended with its commit.
C27_Witness ==
    /\ HasBaseCycle
    /\ batch.phase = "done"
    /\ batch.outcome = "ok"
    /\ Len(batch.visited) = NumProducts

====
